---- MODULE Spec2Model ----
(***************************************************************************)
(* Neighborhood Toolkit (src/App.js): the item registry and the request    *)
(* ledger held in the document store, and the browser tabs that read them  *)
(* through onSnapshot subscriptions and write them through the async       *)
(* handlers handleSubmit, handleAction and handleReturn.                   *)
(*                                                                         *)
(* A handler reads the React state of its component (items, myItems,       *)
(* requests, myRequests) only when the user clicks: what it read then is   *)
(* kept in its closure (requestId, newStatus, request, item) while its     *)
(* awaits are pending.  A click is therefore one step that takes the       *)
(* snapshot its button was rendered from; every await of the handler is a  *)
(* later step, and the store may change in between, so that a handler acts *)
(* on a snapshot that is no longer current.  The store may reject any      *)
(* write and any read.                                                     *)
(*                                                                         *)
(* A user may have the application open in any number of tabs; handlers is *)
(* the bag of the open forms and the running handlers of all tabs, and at  *)
(* most MaxInFlight of them exist at a time.                               *)
(*                                                                         *)
(* The startup of a tab (the two effects of App, the sign-in and the       *)
(* observer that fetches or creates the profile) touches only the App      *)
(* state of that tab and the profile documents; the views and their        *)
(* handlers read of it only the user and userProfile props.  The two parts *)
(* are therefore specified apart: SpecAuth takes MaxTabs tabs through      *)
(* their startup, Spec and SpecOk run the views and handlers of tabs whose *)
(* user is any of Users and whose userProfile is any of SessionProfiles,   *)
(* the values SpecAuth shows a tab that displays its views to hold         *)
(* (DisplayedProfiles).  SpecForms runs the share and borrow forms alone,  *)
(* in the sessions of the three users of Neighbors.                        *)
(*                                                                         *)
(* The observer of a tab is called with what the identity provider         *)
(* reports: first the session the browser kept from an earlier visit, or   *)
(* no user; then the user of the sign-in when it differs; then no user     *)
(* when the session ends.  The source itself never signs out.              *)
(***************************************************************************)
EXTENDS Integers, Sequences, FiniteSets, Bags, TLC

\* ------------------------------------------------------------------ bounds
MaxItems == 2
MaxRequests == 2
MaxTime == 2
MaxInFlight == 2
MaxTabs == 2

\* --------------------------------------------------------------- constants
\* the user identifiers (user.uid) of the signed-in users
Users == {"u1", "u2"}
\* the users of the share and borrow forms: an owner and two other users
Neighbors == Users \cup {"u3"}
Null == 0 - 1
\* the values of the form fields: "" is a field left empty
Names == {"", "Power Drill"}
Dates == {"", "2025-06-01", "2025-06-03"}
\* new Date().toISOString().split('T')[0], the initial borrowDate
Today == "2025-06-02"
\* the tabs followed through their startup
Tabs == 1..MaxTabs
\* currentUser.uid, character by character
Chars(u) ==
    CASE u = "u1" -> << "u", "1", "K", "x", "9", "Q", "z" >>
      [] u = "u2" -> << "u", "2", "L", "m", "4", "R", "t" >>
      [] u = "u3" -> << "u", "3", "M", "n", "5", "S", "v" >>
\* the null of the user and userProfile state
NullUser == ""
NullProfile == [displayName |-> << >>, neighborhoodId |-> ""]
\* the state of App before its effects have run
\* (authCurrentUser: auth.currentUser; currentUser, callback: the argument
\* and the position of the observer call that is awaiting)
AppState == [auth |-> FALSE, user |-> NullUser, isAuthReady |-> FALSE,
             userProfile |-> NullProfile, signIn |-> "idle",
             authCurrentUser |-> NullUser, currentUser |-> NullUser,
             callback |-> "idle"]
\* the closure of a handler before it has read anything
Closure == [uid |-> "", op |-> "none", pc |-> "", requestId |-> 0,
            itemId |-> 0, ownerId |-> "", newStatus |-> "",
            displayName |-> << >>, borrowDate |-> "", returnDate |-> "",
            name |-> "", description |-> ""]
NoError == [op |-> "none", pc |-> "", requestId |-> 0]

VARIABLES
    dbItems,      \* collection .../items: document id = index
    dbRequests,   \* collection .../requests: document id = index
    handlers,     \* the bag of open forms and handlers in flight
    thrown,       \* the await that threw in the step just taken: the error
                  \* a catch block hands to console.error, or the unhandled
                  \* rejection of handleAction; NoError after any other step
    app,          \* the state of the App component of each tab followed
                  \* through its startup
    dbProfiles    \* the documents under .../users: each with its path

vars == <<dbItems, dbRequests, handlers, thrown, app, dbProfiles>>
authVars == <<app, dbProfiles>>
storeVars == <<dbItems, dbRequests, handlers>>

\* ----------------------------------------------------------------- helpers
ItemIds == 1..Len(dbItems)
RequestIds == 1..Len(dbRequests)
Range(f) == {f[k] : k \in DOMAIN f}

\* snapshot.docs.map(doc => ({ id: doc.id, ...doc.data() }))
ItemDocs ==
    [i \in ItemIds |-> [id |-> i, name |-> dbItems[i].name,
                        description |-> dbItems[i].description,
                        ownerId |-> dbItems[i].ownerId,
                        ownerName |-> dbItems[i].ownerName,
                        status |-> dbItems[i].status]]

RequestDocs ==
    [r \in RequestIds |-> [id |-> r, itemId |-> dbRequests[r].itemId,
                           itemName |-> dbRequests[r].itemName,
                           ownerId |-> dbRequests[r].ownerId,
                           borrowerId |-> dbRequests[r].borrowerId,
                           borrowerName |-> dbRequests[r].borrowerName,
                           borrowDate |-> dbRequests[r].borrowDate,
                           returnDate |-> dbRequests[r].returnDate,
                           status |-> dbRequests[r].status,
                           requestedAt |-> dbRequests[r].requestedAt]]

\* the request document a tab has added locally while its addDoc is still
\* awaiting the server: it is part of that tab's own snapshots, with the
\* serverTimestamp() field still null; h is what the tab has in flight
\* (Closure: nothing)
LocalDocs(h) ==
    IF h.op = "addRequest" /\ h.pc = "addDoc"
    THEN << [id |-> 0, itemId |-> h.itemId, itemName |-> h.name,
             ownerId |-> h.ownerId, borrowerId |-> h.uid,
             borrowerName |-> h.displayName, borrowDate |-> h.borrowDate,
             returnDate |-> h.returnDate, status |-> "pending",
             requestedAt |-> Null] >>
    ELSE << >>

InFlight == BagToSet(handlers)
Started(h) == handlers (+) SetToBag({h})
Finished(h) == handlers (-) SetToBag({h})
Continued(h, g) == (handlers (-) SetToBag({h})) (+) SetToBag({g})
HasRoom == BagCardinality(handlers) < MaxInFlight

\* the open forms and running handlers of one kind
Count(op) ==
    BagCardinality([h \in {g \in InFlight : g.op = op} |-> handlers[h]])

\* the error of the await handler h is at
Thrown(h) == [op |-> h.op, pc |-> h.pc, requestId |-> h.requestId]

\* the isSubmitting state of the modal of h: set before the await of addDoc,
\* cleared in its finally block
IsSubmitting(h) == h.pc \in {"addDoc", "typeError"}

\* --------------------------------------------------- Dashboard (browse view)
\* variant of the filter with a lock: an item with an approved request is
\* not offered
BrowseFilterNoApproved(u, item) ==
    /\ item.status = "available" /\ item.ownerId # u
    /\ \A r \in DOMAIN dbRequests :
          ~(dbRequests[r].itemId = item.id
            /\ dbRequests[r].status = "approved")

\* faulty variant of the filter: the ownerId test is dropped
BrowseFilterAnyOwner(u, item) == item.status = "available"

\* items.filter(item => item.status === 'available' && item.ownerId !== user.uid)
BrowseFilter(u, item) == item.status = "available" /\ item.ownerId # u

\* faulty variant of the cards: every item of the items state gets a card
CardsUnfiltered(u, items) == items

\* variant of the cards with a lock: an item that has a pending request is
\* not offered
CardsWithoutRequested(u, items) ==
    SelectSeq(items, LAMBDA item :
        /\ BrowseFilter(u, item)
        /\ \A r \in DOMAIN dbRequests :
              ~(dbRequests[r].itemId = item.id
                /\ dbRequests[r].status = "pending"))

\* the ItemCards rendered from the items state; an empty items list renders
\* the "No items have been shared" paragraph and no card
Cards(u, items) ==
    IF Len(items) = 0 THEN << >>
    ELSE SelectSeq(items, LAMBDA item : BrowseFilter(u, item))

\* ------------------------------------------------------- MyItems (owner view)
\* query(items, where("ownerId", "==", user.uid))
MyItems(u) == SelectSeq(ItemDocs, LAMBDA d : d.ownerId = u)

\* query(requests, where("ownerId", "==", user.uid),
\*       where("status", "in", ["pending", "approved"]))
Requests(u) ==
    SelectSeq(RequestDocs,
              LAMBDA d : d.ownerId = u /\ d.status \in {"pending", "approved"})

\* the approve and decline buttons: rendered for a request of the requests
\* state whose status is pending, under the row of its item in myItems
ActionButtons(u) ==
    {req \in Range(Requests(u)) :
        /\ req.status = "pending"
        /\ \E item \in Range(MyItems(u)) : req.itemId = item.id}

\* ------------------------------------------------ MyBorrows (history order)
StatusOrder(st) ==
    CASE st = "approved" -> 1
      [] st = "pending" -> 2
      [] st = "returned" -> 3
      [] st = "declined" -> 4

\* (x.requestedAt?.seconds || 0)
Seconds(x) == IF x.requestedAt = Null THEN 0 ELSE x.requestedAt

\* faulty variant of the comparator: the timestamps are subtracted the other
\* way round (oldest first)
CompareOldestFirst(a, b) ==
    IF StatusOrder(a.status) # StatusOrder(b.status)
    THEN StatusOrder(a.status) - StatusOrder(b.status)
    ELSE Seconds(a) - Seconds(b)

\* the comparator handed to requestsData.sort
Compare(a, b) ==
    IF StatusOrder(a.status) # StatusOrder(b.status)
    THEN StatusOrder(a.status) - StatusOrder(b.status)
    ELSE Seconds(b) - Seconds(a)

\* Array.prototype.sort is stable: x goes behind every element it does not
\* precede
RECURSIVE Insert(_, _)
Insert(x, sorted) ==
    IF sorted = << >> THEN << x >>
    ELSE IF Compare(x, Head(sorted)) < 0 THEN << x >> \o sorted
    ELSE << Head(sorted) >> \o Insert(x, Tail(sorted))

RECURSIVE SortRequests(_)
SortRequests(list) ==
    IF list = << >> THEN << >>
    ELSE Insert(list[Len(list)], SortRequests(SubSeq(list, 1, Len(list) - 1)))

\* query(requests, where("borrowerId", "==", user.uid)) as delivered to the
\* tab that has h in flight
MyBorrowsDocs(u, h) ==
    SelectSeq(RequestDocs \o LocalDocs(h), LAMBDA d : d.borrowerId = u)

\* the onSnapshot callback of MyBorrows: requestsData.sort(...),
\* setMyRequests(requestsData)
MyRequests(u, h) == SortRequests(MyBorrowsDocs(u, h))

\* ------------------------------------------------------------------- Init
Init ==
    /\ dbItems = << >>
    /\ dbRequests = << >>
    /\ handlers = EmptyBag
    /\ thrown = NoError
    /\ app = [t \in Tabs |-> AppState]
    /\ dbProfiles = << >>

\* ------------------------------------------------------- App (startup)
\* String.prototype.substring(start, end)
Substring(str, start, end) ==
    SubSeq(str, start + 1, IF end < Len(str) THEN end ELSE Len(str))

\* faulty variant of newProfile: the whole uid goes into the display name
NewProfileWholeUid(u) ==
    [displayName |-> << "Neighbor-" >> \o Chars(u),
     neighborhoodId |-> "west-boone"]

\* newProfile: `Neighbor-${currentUser.uid.substring(0, 5)}`, 'west-boone'
\* (createdAt, a serverTimestamp() no handler reads, is left out)
NewProfile(u) ==
    [displayName |-> << "Neighbor-" >> \o Substring(Chars(u), 0, 5),
     neighborhoodId |-> "west-boone"]

\* doc(dbInstance, `/artifacts/${appId}/users/${currentUser.uid}/profile`)
ProfileRef(u) == << "users", u, "profile" >>

\* collection(dbInstance, `/artifacts/${appId}/users/${currentUser.uid}/profile`)
ProfileCollection(u) == << "users", u, "profile" >>

\* userSnap.exists(), userSnap.data() of getDoc(ref)
Exists(ref) == \E k \in DOMAIN dbProfiles : dbProfiles[k].path = ref
Data(ref) ==
    LET k == CHOOSE n \in DOMAIN dbProfiles : dbProfiles[n].path = ref
    IN  [displayName |-> dbProfiles[k].displayName,
         neighborhoodId |-> dbProfiles[k].neighborhoodId]

\* the observer handed to onAuthStateChanged, called with currentUser, up to
\* its first await or, without a user, to its end: setUser(currentUser) and
\* await getDoc(userRef), or setUser(null), setUserProfile(null),
\* setIsAuthReady(true); a call still awaiting is not cancelled
OnAuthStateChanged(t, currentUser) ==
    IF currentUser # NullUser
    THEN [app EXCEPT ![t].user = currentUser,
                     ![t].currentUser = currentUser,
                     ![t].callback = "getDoc"]
    ELSE [app EXCEPT ![t].user = NullUser,
                     ![t].userProfile = NullProfile,
                     ![t].isAuthReady = TRUE,
                     ![t].callback = IF @ = "initial" THEN "idle" ELSE @]

\* the first effect of App: getAuth restores the session the browser kept
\* from an earlier visit, if any (auth.currentUser); setAuth, setDb,
\* onAuthStateChanged subscribes the observer; with auth set, the second
\* effect calls authenticateUser, which awaits signInWithCustomToken or
\* signInAnonymously
Mount(t, session) ==
    /\ ~app[t].auth
    /\ app' = [app EXCEPT ![t].auth = TRUE, ![t].authCurrentUser = session,
                          ![t].signIn = "pending", ![t].callback = "initial"]
    /\ thrown' = NoError
    /\ UNCHANGED <<storeVars, dbProfiles>>

\* the observer is called with the initial auth state: the kept session or
\* no user
AuthStateInitial(t) ==
    /\ app[t].callback = "initial"
    /\ app' = OnAuthStateChanged(t, app[t].authCurrentUser)
    /\ thrown' = NoError
    /\ UNCHANGED <<storeVars, dbProfiles>>

\* the sign-in is rejected: catch, console.error
SignInRejected(t) ==
    /\ app[t].signIn = "pending" /\ app[t].callback # "initial"
    /\ app' = [app EXCEPT ![t].signIn = "failed"]
    /\ thrown' = [op |-> "authenticateUser", pc |-> "signIn", requestId |-> 0]
    /\ UNCHANGED <<storeVars, dbProfiles>>

\* the sign-in resolves with the user u of the token, the user of the kept
\* session if there is one; the observer is called when the signed-in user
\* has changed
SignInResolved(t, u) ==
    /\ app[t].signIn = "pending" /\ app[t].callback # "initial"
    /\ app[t].authCurrentUser \in {NullUser, u}
    /\ app' = IF app[t].authCurrentUser = u
              THEN [app EXCEPT ![t].signIn = "done"]
              ELSE [OnAuthStateChanged(t, u) EXCEPT
                      ![t].signIn = "done", ![t].authCurrentUser = u]
    /\ thrown' = NoError
    /\ UNCHANGED <<storeVars, dbProfiles>>

\* the session ends outside this client (sign-out) once the sign-in of the
\* startup has settled: the observer is called without a user
AuthStateSignedOut(t) ==
    /\ app[t].signIn \in {"done", "failed"}
    /\ app[t].authCurrentUser # NullUser
    /\ app' = [OnAuthStateChanged(t, NullUser) EXCEPT
                 ![t].authCurrentUser = NullUser]
    /\ thrown' = NoError
    /\ UNCHANGED <<storeVars, dbProfiles>>

\* await getDoc(userRef) resolves: without a document at userRef newProfile is
\* built and addDoc awaited, with one setUserProfile(userSnap.data()),
\* setIsAuthReady(true)
ProfileGetDoc(t) ==
    /\ app[t].callback = "getDoc"
    /\ app' = IF ~Exists(ProfileRef(app[t].currentUser))
              THEN [app EXCEPT ![t].callback = "addDoc"]
              ELSE [app EXCEPT
                      ![t].userProfile = Data(ProfileRef(app[t].currentUser)),
                      ![t].isAuthReady = TRUE, ![t].callback = "done"]
    /\ thrown' = NoError
    /\ UNCHANGED <<storeVars, dbProfiles>>

\* await addDoc(collection(...), newProfile) resolves: the document gets an
\* id of its own under the collection; setUserProfile(newProfile),
\* setIsAuthReady(true)
ProfileAddDoc(t) ==
    /\ app[t].callback = "addDoc"
    /\ dbProfiles' = Append(dbProfiles,
            [path |-> ProfileCollection(app[t].currentUser)
                        \o << ToString(Len(dbProfiles) + 1) >>,
             displayName |-> NewProfile(app[t].currentUser).displayName,
             neighborhoodId |-> NewProfile(app[t].currentUser).neighborhoodId])
    /\ app' = [app EXCEPT ![t].userProfile = NewProfile(app[t].currentUser),
                          ![t].isAuthReady = TRUE, ![t].callback = "done"]
    /\ thrown' = NoError
    /\ UNCHANGED storeVars

\* getDoc or addDoc of the observer is rejected: the observer has no
\* try/catch, nothing after the await runs
ProfileRejected(t) ==
    /\ app[t].callback \in {"getDoc", "addDoc"}
    /\ app' = [app EXCEPT ![t].callback = "rejected"]
    /\ thrown' = [op |-> "onAuthStateChanged", pc |-> app[t].callback,
                  requestId |-> 0]
    /\ UNCHANGED <<storeVars, dbProfiles>>

\* faulty variant of the render gate: the test user && db is dropped
ViewsDisplayedWithoutUser(t) == app[t].isAuthReady

\* the render gate of App: the three views are rendered under isAuthReady
\* and user && db
ViewsDisplayed(t) ==
    app[t].isAuthReady /\ app[t].user # NullUser /\ app[t].auth

\* the "Loading Toolkit..." screen
LoadingDisplayed(t) == ~app[t].isAuthReady

\* the userProfile prop App hands to the views and their modals in a tab of
\* user u that displays them: null while the observer is awaiting getDoc or
\* addDoc and after either was rejected, newProfile afterwards
SessionProfiles(u) == {NullProfile, NewProfile(u)}

\* ------------------------------------------------- AddItemModal (share item)
\* the "Share an Item" button: setShowAddItemModal(true)
OpenAddItemModal(u) ==
    /\ HasRoom
    /\ Len(dbItems) + Count("addItem") < MaxItems
    /\ handlers' = Started([Closure EXCEPT !.uid = u, !.op = "addItem",
                                           !.pc = "open"])
    /\ thrown' = NoError
    /\ UNCHANGED <<dbItems, dbRequests>>
    /\ UNCHANGED authVars

\* faulty variant of handleSubmit: the test of name and description is
\* dropped
AddItemSubmitUnchecked(h, name, description, userProfile) ==
    /\ h.op = "addItem" /\ h.pc = "open"
    /\ IF userProfile = NullProfile
       THEN /\ handlers' = Continued(h, [h EXCEPT !.pc = "typeError"])
            /\ thrown' = [op |-> h.op, pc |-> "userProfile", requestId |-> 0]
       ELSE /\ handlers' = Continued(h, [h EXCEPT
                    !.pc = "addDoc", !.name = name,
                    !.description = description, !.ownerId = h.uid,
                    !.displayName = userProfile.displayName,
                    !.newStatus = "available"])
            /\ thrown' = NoError
    /\ UNCHANGED <<dbItems, dbRequests>>
    /\ UNCHANGED authVars

\* handleSubmit up to its await addDoc; the submit button is disabled while
\* isSubmitting
AddItemSubmit(h, name, description, userProfile) ==
    /\ h.op = "addItem" /\ h.pc = "open"
    /\ IF name = "" \/ description = ""
       THEN UNCHANGED handlers /\ thrown' = NoError
       ELSE IF userProfile = NullProfile
       THEN \* setIsSubmitting(true); userProfile.neighborhoodId throws a
            \* TypeError outside the try block
            /\ handlers' = Continued(h, [h EXCEPT !.pc = "typeError"])
            /\ thrown' = [op |-> h.op, pc |-> "userProfile", requestId |-> 0]
       ELSE /\ handlers' = Continued(h, [h EXCEPT
                    !.pc = "addDoc", !.name = name,
                    !.description = description, !.ownerId = h.uid,
                    !.displayName = userProfile.displayName,
                    !.newStatus = "available"])
            /\ thrown' = NoError
    /\ UNCHANGED <<dbItems, dbRequests>>
    /\ UNCHANGED authVars

\* the addDoc of handleSubmit is committed; onClose, finally
AddItemDoc(h) ==
    /\ h.op = "addItem" /\ h.pc = "addDoc"
    /\ dbItems' = Append(dbItems, [name |-> h.name,
                                   description |-> h.description,
                                   ownerId |-> h.ownerId,
                                   ownerName |-> h.displayName,
                                   status |-> h.newStatus])
    /\ handlers' = Finished(h)
    /\ thrown' = NoError
    /\ UNCHANGED dbRequests
    /\ UNCHANGED authVars

\* faulty variant: the modal is closed whether or not addDoc succeeded
AddItemRejectedClosing(h) ==
    /\ h.op = "addItem" /\ h.pc = "addDoc"
    /\ handlers' = Finished(h)
    /\ thrown' = Thrown(h)
    /\ UNCHANGED <<dbItems, dbRequests>>
    /\ UNCHANGED authVars

\* the addDoc of handleSubmit is rejected: catch, console.error, finally; the
\* modal stays open
AddItemRejected(h) ==
    /\ h.op = "addItem" /\ h.pc = "addDoc"
    /\ handlers' = Continued(h, [h EXCEPT !.pc = "open", !.name = "",
                                           !.description = "",
                                           !.ownerId = "",
                                           !.displayName = << >>,
                                           !.newStatus = ""])
    /\ thrown' = Thrown(h)
    /\ UNCHANGED <<dbItems, dbRequests>>
    /\ UNCHANGED authVars

\* ---------------------------------------------- BorrowModal (borrow request)
\* faulty variant of the request's ownerId: the clicking user instead of the
\* owner of the selected item
HandleBorrowClickOwnUid(u, item) ==
    /\ HasRoom
    /\ Len(dbRequests) + Count("addRequest") < MaxRequests
    /\ item \in Range(Cards(u, ItemDocs))
    /\ handlers' = Started([Closure EXCEPT !.uid = u, !.op = "addRequest",
                                           !.pc = "open", !.itemId = item.id,
                                           !.name = item.name,
                                           !.ownerId = u])
    /\ thrown' = NoError
    /\ UNCHANGED <<dbItems, dbRequests>>
    /\ UNCHANGED authVars

\* handleBorrowClick(item) on the Borrow button of a rendered ItemCard:
\* setSelectedItem(item), setShowBorrowModal(true)
HandleBorrowClick(u, item) ==
    /\ HasRoom
    /\ Len(dbRequests) + Count("addRequest") < MaxRequests
    /\ item \in Range(Cards(u, ItemDocs))
    /\ handlers' = Started([Closure EXCEPT !.uid = u, !.op = "addRequest",
                                           !.pc = "open", !.itemId = item.id,
                                           !.name = item.name,
                                           !.ownerId = item.ownerId])
    /\ thrown' = NoError
    /\ UNCHANGED <<dbItems, dbRequests>>
    /\ UNCHANGED authVars

\* handleSubmit up to its await addDoc
BorrowSubmit(h, borrowDate, returnDate, userProfile) ==
    /\ h.op = "addRequest" /\ h.pc = "open"
    /\ IF borrowDate = "" \/ returnDate = ""
       THEN UNCHANGED handlers /\ thrown' = NoError
       ELSE IF userProfile = NullProfile
       THEN \* setIsSubmitting(true); userProfile.neighborhoodId throws a
            \* TypeError outside the try block
            /\ handlers' = Continued(h, [h EXCEPT !.pc = "typeError"])
            /\ thrown' = [op |-> h.op, pc |-> "userProfile", requestId |-> 0]
       ELSE /\ handlers' = Continued(h, [h EXCEPT
                    !.pc = "addDoc", !.newStatus = "pending",
                    !.displayName = userProfile.displayName,
                    !.borrowDate = borrowDate, !.returnDate = returnDate])
            /\ thrown' = NoError
    /\ UNCHANGED <<dbItems, dbRequests>>
    /\ UNCHANGED authVars

\* serverTimestamp(): the commit time in seconds, never before an earlier one
ServerTimes ==
    {t \in 1..MaxTime : \A r \in RequestIds : dbRequests[r].requestedAt <= t}

\* variant of the request write with a reservation: the requested item is
\* taken out of the browse view as soon as the request is written
AddRequestDocReserving(h, t) ==
    /\ h.op = "addRequest" /\ h.pc = "addDoc"
    /\ t \in ServerTimes
    /\ dbRequests' = Append(dbRequests,
            [itemId |-> h.itemId, itemName |-> h.name, ownerId |-> h.ownerId,
             borrowerId |-> h.uid, borrowerName |-> h.displayName,
             borrowDate |-> h.borrowDate, returnDate |-> h.returnDate,
             status |-> h.newStatus, requestedAt |-> t])
    /\ dbItems' = [dbItems EXCEPT ![h.itemId].status = "borrowed"]
    /\ handlers' = Finished(h)
    /\ thrown' = NoError
    /\ UNCHANGED authVars

\* the addDoc of handleSubmit is committed at server time t; onClose, finally
AddRequestDoc(h, t) ==
    /\ h.op = "addRequest" /\ h.pc = "addDoc"
    /\ t \in ServerTimes
    /\ dbRequests' = Append(dbRequests,
            [itemId |-> h.itemId, itemName |-> h.name, ownerId |-> h.ownerId,
             borrowerId |-> h.uid, borrowerName |-> h.displayName,
             borrowDate |-> h.borrowDate, returnDate |-> h.returnDate,
             status |-> h.newStatus, requestedAt |-> t])
    /\ handlers' = Finished(h)
    /\ thrown' = NoError
    /\ UNCHANGED dbItems
    /\ UNCHANGED authVars

\* the addDoc of handleSubmit is rejected: catch, console.error, finally; the
\* modal stays open
AddRequestRejected(h) ==
    /\ h.op = "addRequest" /\ h.pc = "addDoc"
    /\ handlers' = Continued(h, [h EXCEPT !.pc = "open", !.newStatus = "",
                                           !.displayName = << >>,
                                           !.borrowDate = "",
                                           !.returnDate = ""])
    /\ thrown' = Thrown(h)
    /\ UNCHANGED <<dbItems, dbRequests>>
    /\ UNCHANGED authVars

\* the X and Cancel buttons of both modals: onClose
CloseModal(h) ==
    /\ h.pc \in {"open", "typeError"}
    /\ handlers' = Finished(h)
    /\ thrown' = NoError
    /\ UNCHANGED <<dbItems, dbRequests>>
    /\ UNCHANGED authVars

\* ---------------------------------------------------------------- MyItems
\* handleAction(req.id, newStatus) up to its first await
HandleActionClick(u, req, newStatus) ==
    /\ HasRoom
    /\ req \in ActionButtons(u)
    /\ newStatus \in {"approved", "declined"}
    /\ handlers' = Started([Closure EXCEPT !.uid = u, !.op = "handleAction",
                                           !.pc = "updateRequest",
                                           !.requestId = req.id,
                                           !.newStatus = newStatus])
    /\ thrown' = NoError
    /\ UNCHANGED <<dbItems, dbRequests>>
    /\ UNCHANGED authVars

\* faulty variant of the request write of handleAction: the test
\* newStatus === 'approved' is dropped, the item is written after a decline too
HandleActionUpdateRequestUnguarded(h) ==
    /\ h.op = "handleAction" /\ h.pc = "updateRequest"
    /\ dbRequests' = [dbRequests EXCEPT ![h.requestId].status = h.newStatus]
    /\ handlers' = Continued(h, [h EXCEPT !.pc = "getDoc"])
    /\ thrown' = NoError
    /\ UNCHANGED dbItems
    /\ UNCHANGED authVars

\* await updateDoc(requestRef, { status: newStatus }) succeeds
HandleActionUpdateRequest(h) ==
    /\ h.op = "handleAction" /\ h.pc = "updateRequest"
    /\ dbRequests' = [dbRequests EXCEPT ![h.requestId].status = h.newStatus]
    /\ handlers' = IF h.newStatus = "approved"
                   THEN Continued(h, [h EXCEPT !.pc = "getDoc"])
                   ELSE Finished(h)
    /\ thrown' = NoError
    /\ UNCHANGED dbItems
    /\ UNCHANGED authVars

\* await getDoc(requestRef) succeeds: requestData.itemId
HandleActionGetDoc(h) ==
    /\ h.op = "handleAction" /\ h.pc = "getDoc"
    /\ handlers' = Continued(h, [h EXCEPT
            !.pc = "updateItem", !.itemId = dbRequests[h.requestId].itemId])
    /\ thrown' = NoError
    /\ UNCHANGED <<dbItems, dbRequests>>
    /\ UNCHANGED authVars

\* await updateDoc(itemRef, { status: 'borrowed' }) succeeds
HandleActionUpdateItem(h) ==
    /\ h.op = "handleAction" /\ h.pc = "updateItem"
    /\ dbItems' = [dbItems EXCEPT ![h.itemId].status = "borrowed"]
    /\ handlers' = Finished(h)
    /\ thrown' = NoError
    /\ UNCHANGED dbRequests
    /\ UNCHANGED authVars

\* variant of the failure of handleAction with a compensating write: when the
\* item write throws, the request is put back to pending
HandleActionRejectedCompensating(h) ==
    /\ h.op = "handleAction"
    /\ h.pc \in {"updateRequest", "getDoc", "updateItem"}
    /\ dbRequests' = IF h.pc = "updateItem"
                     THEN [dbRequests EXCEPT ![h.requestId].status = "pending"]
                     ELSE dbRequests
    /\ handlers' = Finished(h)
    /\ thrown' = Thrown(h)
    /\ UNCHANGED dbItems
    /\ UNCHANGED authVars

\* an await of handleAction throws: the handler has no try/catch, its promise
\* is rejected and nothing after the await runs
HandleActionRejected(h) ==
    /\ h.op = "handleAction"
    /\ h.pc \in {"updateRequest", "getDoc", "updateItem"}
    /\ handlers' = Finished(h)
    /\ thrown' = Thrown(h)
    /\ UNCHANGED <<dbItems, dbRequests>>
    /\ UNCHANGED authVars

\* -------------------------------------------------------------- MyBorrows
\* the "Mark as Returned" button: rendered for a request of myRequests whose
\* status is approved; handleReturn(req) up to its first await
HandleReturnClick(u, req) ==
    /\ HasRoom
    /\ req \in Range(MyRequests(u, Closure))
    /\ req.status = "approved"
    /\ handlers' = Started([Closure EXCEPT !.uid = u, !.op = "handleReturn",
                                           !.pc = "updateRequest",
                                           !.requestId = req.id,
                                           !.itemId = req.itemId,
                                           !.newStatus = "returned"])
    /\ thrown' = NoError
    /\ UNCHANGED <<dbItems, dbRequests>>
    /\ UNCHANGED authVars

\* faulty variant of the request write of handleReturn: the document is
\* written anew without its borrowerName
HandleReturnUpdateRequestOverwriting(h) ==
    /\ h.op = "handleReturn" /\ h.pc = "updateRequest"
    /\ dbRequests' = [dbRequests EXCEPT ![h.requestId].status = h.newStatus,
                                        ![h.requestId].borrowerName = << >>]
    /\ handlers' = Continued(h, [h EXCEPT !.pc = "updateItem"])
    /\ thrown' = NoError
    /\ UNCHANGED dbItems
    /\ UNCHANGED authVars

\* await updateDoc(requestRef, { status: 'returned' }) succeeds
HandleReturnUpdateRequest(h) ==
    /\ h.op = "handleReturn" /\ h.pc = "updateRequest"
    /\ dbRequests' = [dbRequests EXCEPT ![h.requestId].status = h.newStatus]
    /\ handlers' = Continued(h, [h EXCEPT !.pc = "updateItem"])
    /\ thrown' = NoError
    /\ UNCHANGED dbItems
    /\ UNCHANGED authVars

\* faulty variant of the item write of handleReturn: the item reference is
\* built from request.id instead of request.itemId
HandleReturnUpdateItemByRequestId(h) ==
    /\ h.op = "handleReturn" /\ h.pc = "updateItem"
    /\ dbItems' = IF h.requestId \in ItemIds
                  THEN [dbItems EXCEPT ![h.requestId].status = "available"]
                  ELSE dbItems
    /\ handlers' = Finished(h)
    /\ thrown' = NoError
    /\ UNCHANGED dbRequests
    /\ UNCHANGED authVars

\* await updateDoc(itemRef, { status: 'available' }) succeeds
HandleReturnUpdateItem(h) ==
    /\ h.op = "handleReturn" /\ h.pc = "updateItem"
    /\ dbItems' = [dbItems EXCEPT ![h.itemId].status = "available"]
    /\ handlers' = Finished(h)
    /\ thrown' = NoError
    /\ UNCHANGED dbRequests
    /\ UNCHANGED authVars

\* faulty variant: each await caught on its own, the item write is issued
\* although the request write was rejected
HandleReturnRejectedContinuing(h) ==
    /\ h.op = "handleReturn"
    /\ h.pc \in {"updateRequest", "updateItem"}
    /\ handlers' = IF h.pc = "updateRequest"
                   THEN Continued(h, [h EXCEPT !.pc = "updateItem"])
                   ELSE Finished(h)
    /\ thrown' = Thrown(h)
    /\ UNCHANGED <<dbItems, dbRequests>>
    /\ UNCHANGED authVars

\* an await of handleReturn throws: catch, console.error
HandleReturnRejected(h) ==
    /\ h.op = "handleReturn"
    /\ h.pc \in {"updateRequest", "updateItem"}
    /\ handlers' = Finished(h)
    /\ thrown' = Thrown(h)
    /\ UNCHANGED <<dbItems, dbRequests>>
    /\ UNCHANGED authVars

\* ------------------------------------------------------------------ Next
Click ==
    \/ \E u \in Users : OpenAddItemModal(u)
    \/ \E h \in InFlight, name \in Names, description \in Names :
            \E userProfile \in SessionProfiles(h.uid) :
                AddItemSubmit(h, name, description, userProfile)
    \/ \E u \in Users : \E item \in Range(ItemDocs) : HandleBorrowClick(u, item)
    \/ \E h \in InFlight, borrowDate \in {"", Today}, returnDate \in Dates :
            \E userProfile \in SessionProfiles(h.uid) :
                BorrowSubmit(h, borrowDate, returnDate, userProfile)
    \/ \E h \in InFlight : CloseModal(h)
    \/ \E u \in Users : \E req \in Range(RequestDocs) :
            \E newStatus \in {"approved", "declined"} :
                HandleActionClick(u, req, newStatus)
    \/ \E u \in Users : \E req \in Range(RequestDocs) : HandleReturnClick(u, req)

Resolve ==
    \/ \E h \in InFlight : AddItemDoc(h)
    \/ \E h \in InFlight : \E t \in 1..MaxTime : AddRequestDoc(h, t)
    \/ \E h \in InFlight : HandleActionUpdateRequest(h)
    \/ \E h \in InFlight : HandleActionGetDoc(h)
    \/ \E h \in InFlight : HandleActionUpdateItem(h)
    \/ \E h \in InFlight : HandleReturnUpdateRequest(h)
    \/ \E h \in InFlight : HandleReturnUpdateItem(h)

Reject ==
    \/ \E h \in InFlight : AddItemRejected(h)
    \/ \E h \in InFlight : AddRequestRejected(h)
    \/ \E h \in InFlight : HandleActionRejected(h)
    \/ \E h \in InFlight : HandleReturnRejected(h)

\* the views and their handlers
Next == Click \/ Resolve \/ Reject

Spec == Init /\ [][Next]_vars

\* the startup of the tabs: sign-in and profile
Startup ==
    \/ \E t \in Tabs : \E session \in {NullUser} \cup Users : Mount(t, session)
    \/ \E t \in Tabs : AuthStateInitial(t)
    \/ \E t \in Tabs : SignInRejected(t)
    \/ \E t \in Tabs : \E u \in Users : SignInResolved(t, u)
    \/ \E t \in Tabs : AuthStateSignedOut(t)
    \/ \E t \in Tabs : ProfileGetDoc(t)
    \/ \E t \in Tabs : ProfileAddDoc(t)
    \/ \E t \in Tabs : ProfileRejected(t)

SpecAuth == Init /\ [][Startup]_vars

\* the share and borrow forms alone, in the sessions of three users
Forms ==
    \/ \E u \in Neighbors : OpenAddItemModal(u)
    \/ \E h \in InFlight, name \in Names, description \in Names :
            \E userProfile \in SessionProfiles(h.uid) :
                AddItemSubmit(h, name, description, userProfile)
    \/ \E u \in Neighbors : \E item \in Range(ItemDocs) :
            HandleBorrowClick(u, item)
    \/ \E h \in InFlight, borrowDate \in {"", Today}, returnDate \in Dates :
            \E userProfile \in SessionProfiles(h.uid) :
                BorrowSubmit(h, borrowDate, returnDate, userProfile)
    \/ \E h \in InFlight : CloseModal(h)
    \/ \E h \in InFlight : AddItemDoc(h)
    \/ \E h \in InFlight : \E t \in 1..MaxTime : AddRequestDoc(h, t)
    \/ \E h \in InFlight : AddItemRejected(h)
    \/ \E h \in InFlight : AddRequestRejected(h)

SpecForms == Init /\ [][Forms]_vars

\* every write and read issued to the store succeeds
NextOk == Click \/ Resolve

SpecOk == Init /\ [][NextOk]_vars

\* ================================================================= claims
\* the item a handler's request is for
ItemOf(h) == dbRequests[h.requestId].itemId

\* this step is a step of the handler h
Acts(h) ==
    /\ handlers' # handlers
    /\ BagCardinality(handlers') <= BagCardinality(handlers)
    /\ (handlers (-) SetToBag({h})) \sqsubseteq handlers'

Approved(i) == {r \in RequestIds : dbRequests[r].itemId = i
                                   /\ dbRequests[r].status = "approved"}

\* C1: every change of a request's status is pending->approved,
\* pending->declined or approved->returned; a declined or returned request
\* never changes status again.
RequestStatusMonotonic ==
    [][\A r \in RequestIds :
          dbRequests'[r].status # dbRequests[r].status
          => <<dbRequests[r].status, dbRequests'[r].status>> \in
                {<<"pending", "approved">>, <<"pending", "declined">>,
                 <<"approved", "returned">>}]_vars

\* C2: in every reachable state an item is borrowed if and only if at least
\* one request on it is approved.
BorrowedIffApproved ==
    \A i \in ItemIds : dbItems[i].status = "borrowed" <=> Approved(i) # {}

\* between the two writes of an approve: the request is approved, its item
\* still available
ApprovedBetweenWrites ==
    \E h \in InFlight :
        /\ h.op = "handleAction" /\ h.pc = "getDoc"
        /\ dbRequests[h.requestId].status = "approved"
        /\ dbItems[ItemOf(h)].status = "available"

\* C3: with every write succeeding (SpecOk), in every state where no two-step
\* write (approve, return) is in flight, an item is borrowed if and only if
\* exactly one request on it is approved.
TwoStep(h) ==
    \/ h.op = "handleAction" /\ h.newStatus = "approved"
    \/ h.op = "handleReturn"

QuiescentBorrowedIffOneApproved ==
    (\A h \in InFlight : ~TwoStep(h))
    => \A i \in ItemIds :
          dbItems[i].status = "borrowed" <=> Cardinality(Approved(i)) = 1

\* nothing in flight, an item borrowed, two requests on it approved
TwoApprovedAtRest ==
    /\ handlers = EmptyBag
    /\ \E i \in ItemIds :
          /\ dbItems[i].status = "borrowed"
          /\ Cardinality(Approved(i)) = 2

\* C4: when the item write of approve is rejected after its request write
\* succeeded, the step leaves the request (approved) and the item (available)
\* as they were, and the handler ends there: it issues no retry and no
\* compensating write.
ApproveItemWriteFailureLeavesStore ==
    [][(thrown'.op = "handleAction" /\ thrown'.pc = "updateItem")
       => /\ dbRequests' = dbRequests
          /\ dbItems' = dbItems
          /\ \E h \in InFlight :
                /\ Thrown(h) = thrown'
                /\ h.newStatus = "approved"
                /\ handlers' = handlers (-) SetToBag({h})]_vars

ApprovedButAvailableAfterFailure ==
    /\ thrown.op = "handleAction" /\ thrown.pc = "updateItem"
    /\ dbRequests[thrown.requestId].status = "approved"
    /\ dbItems[dbRequests[thrown.requestId].itemId].status = "available"
    /\ handlers = EmptyBag

\* C5: approve writes approved to the request and, only after that write has
\* completed, borrowed to the item of the request's itemId; when both writes
\* have succeeded the request is approved and that item is borrowed.
ApproveWritesRequestThenItem ==
    [][\A h \in InFlight :
          (Acts(h) /\ h.op = "handleAction" /\ h.newStatus = "approved"
                   /\ thrown' = NoError)
          => /\ h.pc = "updateRequest"
                => /\ dbRequests'[h.requestId].status = "approved"
                   /\ dbItems' = dbItems
             /\ h.pc = "getDoc" => dbItems' = dbItems /\ dbRequests' = dbRequests
             /\ h.pc = "updateItem"
                => /\ dbRequests'[h.requestId].status = "approved"
                   /\ dbItems'[ItemOf(h)].status = "borrowed"]_vars

\* C6: return writes returned to the request and then available to the item
\* of the request's itemId; when both writes have succeeded the request is
\* returned and that item is available.
ReturnWritesRequestThenItem ==
    [][\A h \in InFlight :
          (Acts(h) /\ h.op = "handleReturn" /\ thrown' = NoError)
          => /\ h.pc = "updateRequest"
                => /\ dbRequests'[h.requestId].status = "returned"
                   /\ dbItems' = dbItems
             /\ h.pc = "updateItem"
                => /\ dbRequests'[h.requestId].status = "returned"
                   /\ dbItems'[ItemOf(h)].status = "available"]_vars

\* C7: an approve of a request for item X and a return on a request for
\* another item Y, interleaved in any order of their writes, each change only
\* their own item, and the completed approve leaves X borrowed.
ApproveAndReturnWriteOwnItem ==
    [][\A h \in InFlight :
          (Acts(h) /\ h.op \in {"handleAction", "handleReturn"})
          => /\ Len(dbItems') = Len(dbItems)
             /\ \A i \in ItemIds : i # ItemOf(h) => dbItems'[i] = dbItems[i]
             /\ (h.op = "handleAction" /\ h.pc = "updateItem"
                    /\ thrown' = NoError)
                => dbItems'[ItemOf(h)].status = "borrowed"]_vars

ApproveAndReturnInterleaved ==
    \E h \in InFlight, g \in InFlight :
        /\ h.op = "handleAction" /\ h.newStatus = "approved"
        /\ g.op = "handleReturn"
        /\ h.pc = "updateItem" /\ g.pc = "updateItem"
        /\ ItemOf(h) # ItemOf(g)
        /\ dbItems[ItemOf(h)].status = "available"
        /\ dbItems[ItemOf(g)].status = "borrowed"

\* C8: decline changes only the status of the request it is applied to, to
\* declined: it writes no item and leaves every other request unchanged.
DeclineChangesOnlyItsRequest ==
    [][\A h \in InFlight :
          (Acts(h) /\ h.op = "handleAction" /\ h.newStatus = "declined")
          => /\ dbItems' = dbItems
             /\ handlers' = handlers (-) SetToBag({h})
             /\ dbRequests' =
                   IF thrown' = NoError
                   THEN [dbRequests EXCEPT ![h.requestId].status = "declined"]
                   ELSE dbRequests]_vars

DeclineApplied ==
    \E r \in RequestIds :
        /\ dbRequests[r].status = "declined"
        /\ dbItems[dbRequests[r].itemId].status = "available"
        /\ \E q \in RequestIds : q # r /\ dbRequests[q].status = "pending"

\* C9: for every content of the item feed, the browse view of a user shows
\* exactly the items that are available and not owned by that user.
BrowseViewExact ==
    \A u \in Users :
        LET cards == Cards(u, ItemDocs) IN
        /\ Range(cards) = {d \in Range(ItemDocs) :
                              d.status = "available" /\ d.ownerId # u}
        /\ Cardinality(Range(cards)) = Len(cards)
        /\ \A c \in Range(cards) : c.ownerId # u /\ c.status = "available"

BrowseViewHidesOwnAndBorrowed ==
    \E u \in Users : \E a \in Range(ItemDocs), b \in Range(ItemDocs) :
        /\ a.ownerId = u /\ a.status = "available"
        /\ b.ownerId # u /\ b.status = "borrowed"
        /\ Cards(u, ItemDocs) = << >>
        /\ \E v \in Users : Cards(v, ItemDocs) = << a >>

\* C10: on every snapshot the borrow-history list is a permutation of the
\* user's requests, ordered by the precedence approved < pending < returned
\* < declined and, within one status, by descending request timestamp (no
\* timestamp counts as 0).
Precedence == << "approved", "pending", "returned", "declined" >>
Rank(st) == CHOOSE n \in 1..4 : Precedence[n] = st
TimeOf(d) == IF d.requestedAt = Null THEN 0 ELSE d.requestedAt

HistoryOrdered ==
    \A u \in Users : \A h \in InFlight \cup {Closure} :
        LET docs == MyBorrowsDocs(u, h)
            list == MyRequests(u, h) IN
        /\ Len(list) = Len(docs)
        /\ \A d \in Range(docs) :
              Cardinality({n \in DOMAIN list : list[n] = d})
                = Cardinality({n \in DOMAIN docs : docs[n] = d})
        /\ Range(docs) = {d \in Range(RequestDocs \o LocalDocs(h)) :
                             d.borrowerId = u}
        /\ \A m \in DOMAIN list, n \in DOMAIN list :
              m < n =>
                \/ Rank(list[m].status) < Rank(list[n].status)
                \/ /\ list[m].status = list[n].status
                   /\ TimeOf(list[m]) >= TimeOf(list[n])

HistoryReorderedByTime ==
    \E u \in Users :
        LET list == MyRequests(u, Closure) IN
        /\ Len(list) = 2
        /\ list[1].status = list[2].status
        /\ list[1].requestedAt > list[2].requestedAt
        /\ list[1].id > list[2].id

\* the profile documents written for user u
ProfilesOf(u) == {k \in DOMAIN dbProfiles : dbProfiles[k].path[2] = u}

\* C11: a sign-in of a user for whom a profile has been written finds that
\* profile through the lookup and reuses it unchanged, and no second profile
\* document is ever created for one user identifier.
SecondSignInReusesProfile ==
    [][/\ \A t \in Tabs :
             (/\ app[t].callback = "getDoc"
              /\ app'[t].callback \notin {"getDoc", "rejected"}
              /\ ProfilesOf(app[t].currentUser) # {})
             => /\ app'[t].callback = "done"
                /\ \E k \in ProfilesOf(app[t].currentUser) :
                      /\ app'[t].userProfile.displayName
                            = dbProfiles[k].displayName
                      /\ app'[t].userProfile.neighborhoodId
                            = dbProfiles[k].neighborhoodId
                /\ dbProfiles' = dbProfiles
       /\ \A u \in Users :
             Cardinality({k \in DOMAIN dbProfiles' :
                             dbProfiles'[k].path[2] = u}) <= 1]_vars

\* two tabs have signed in as the same user one after the other, and each
\* has written a profile
TwoProfilesOfOneUser ==
    \E u \in Users :
        /\ Cardinality(ProfilesOf(u)) = 2
        /\ \A t \in Tabs : app[t].user = u /\ app[t].callback = "done"

\* C12: when the profile lookup of a signed-in user finds nothing, a profile
\* is written with display name 'Neighbor-' followed by the first five
\* characters of the user identifier and neighborhood 'west-boone', and that
\* profile becomes the session's userProfile.
FirstFive(u) == [n \in 1..5 |-> Chars(u)[n]]

FirstSignInWritesProfile ==
    [][\A t \in Tabs :
          LET u == app[t].currentUser IN
          /\ (/\ app[t].callback = "getDoc"
              /\ app'[t].callback \notin {"getDoc", "rejected"}
              /\ ~Exists(ProfileRef(u)))
             => app'[t].callback = "addDoc" /\ dbProfiles' = dbProfiles
          /\ (app[t].callback = "addDoc" /\ app'[t].callback = "done")
             => /\ Len(dbProfiles') = Len(dbProfiles) + 1
                /\ SubSeq(dbProfiles', 1, Len(dbProfiles)) = dbProfiles
                /\ LET new == dbProfiles'[Len(dbProfiles')] IN
                      /\ new.path[2] = u
                      /\ new.displayName = << "Neighbor-" >> \o FirstFive(u)
                      /\ new.neighborhoodId = "west-boone"
                      /\ app'[t].userProfile.displayName = new.displayName
                      /\ app'[t].userProfile.neighborhoodId
                            = new.neighborhoodId
                /\ app'[t].isAuthReady]_vars

ProfileWrittenAtFirstSignIn ==
    \E t \in Tabs :
        /\ app[t].user = "u1" /\ app[t].callback = "done"
        /\ app[t].userProfile.displayName
              = << "Neighbor-", "u", "1", "K", "x", "9" >>
        /\ Cardinality(ProfilesOf("u1")) = 1
        /\ ViewsDisplayed(t)

DisplayedProfiles ==
    \A t \in Tabs :
        ViewsDisplayed(t)
        => /\ app[t].user \in Users
           /\ app[t].userProfile \in SessionProfiles(app[t].user)

DateOrder == << "2025-06-01", "2025-06-02", "2025-06-03" >>
Day(d) == CHOOSE n \in DOMAIN DateOrder : DateOrder[n] = d

ReturnDateNotBeforeBorrowDate ==
    \A r \in RequestIds :
        Day(dbRequests[r].returnDate) >= Day(dbRequests[r].borrowDate)

\* C17: the owner's request view holds exactly the requests of that owner
\* whose status is pending or approved, and a request that is declined or
\* returned is absent from it from the next snapshot on.
OwnerView(u) == {d.id : d \in Range(Requests(u))}

OwnerViewDropsClosedRequests ==
    [][\A u \in Users :
          /\ OwnerView(u)' =
                {r \in DOMAIN dbRequests' :
                    /\ dbRequests'[r].ownerId = u
                    /\ dbRequests'[r].status \in {"pending", "approved"}}
          /\ \A r \in RequestIds :
                dbRequests[r].status \in {"declined", "returned"}
                => r \notin OwnerView(u)']_vars

\* C18: when the addDoc of a share submit is rejected no item is added, the
\* form stays open and its isSubmitting flag is false again, so that it can
\* be submitted again.
ShareWriteRejectionKeepsFormOpen ==
    [][(thrown'.op = "addItem" /\ thrown'.pc = "addDoc")
       => /\ dbItems' = dbItems
          /\ dbRequests' = dbRequests
          /\ \E h \in InFlight : \E g \in BagToSet(handlers') :
                /\ Thrown(h) = thrown' /\ IsSubmitting(h)
                /\ handlers' = (handlers (-) SetToBag({h})) (+) SetToBag({g})
                /\ g.op = "addItem" /\ g.uid = h.uid
                /\ g.pc = "open" /\ ~IsSubmitting(g)]_vars

ShareFormOpenAfterRejection ==
    /\ thrown.op = "addItem" /\ thrown.pc = "addDoc"
    /\ dbItems = << >>
    /\ \E h \in InFlight : h.op = "addItem" /\ h.pc = "open"

\* C19: with every write succeeding, the state between the two writes of an
\* approve (request approved, item available) is offered to readers like any
\* other: the item is on the browse view of every other user with its Borrow
\* button, and the request is on the borrower's list as approved, with its
\* return button.
BetweenApproveWrites(h) ==
    /\ h.op = "handleAction" /\ h.newStatus = "approved"
    /\ h.pc \in {"getDoc", "updateItem"}
    /\ dbRequests[h.requestId].status = "approved"
    /\ dbItems[ItemOf(h)].status = "available"

IntermediateStateIsActionable ==
    \A h \in InFlight :
        BetweenApproveWrites(h)
        => /\ \A v \in Users :
                 v # dbItems[ItemOf(h)].ownerId
                 => ItemDocs[ItemOf(h)] \in Range(Cards(v, ItemDocs))
           /\ RequestDocs[h.requestId] \in
                 Range(MyRequests(dbRequests[h.requestId].borrowerId, Closure))

ReaderActedBetweenApproveWrites ==
    \E h \in InFlight, g \in InFlight :
        /\ BetweenApproveWrites(h)
        /\ g.op = "handleReturn" /\ g.requestId = h.requestId
        /\ g.pc = "updateRequest"

\* C20: when a write of a return is rejected the return ends there: it
\* issues no later write, no retry and no compensating write.
ReturnWriteFailureLeavesStore ==
    [][(thrown'.op = "handleReturn")
       => /\ dbRequests' = dbRequests
          /\ dbItems' = dbItems
          /\ \E h \in InFlight :
                /\ Thrown(h) = thrown'
                /\ handlers' = handlers (-) SetToBag({h})]_vars

ReturnedButBorrowedAfterFailure ==
    /\ thrown.op = "handleReturn" /\ thrown.pc = "updateItem"
    /\ dbRequests[thrown.requestId].status = "returned"
    /\ dbItems[dbRequests[thrown.requestId].itemId].status = "borrowed"
    /\ handlers = EmptyBag

\* C21: no request created through the borrow form of the browse view has a
\* borrowerId equal to its ownerId: the form opens only on an item that
\* passed the browsing filter of the same user.
NoRequestOnOwnItem ==
    \A r \in RequestIds : dbRequests[r].borrowerId # dbRequests[r].ownerId

\* a borrower who owns an available item of their own has a request on the
\* item of another user
BorrowerOwnsAnotherItem ==
    \E r \in RequestIds, i \in ItemIds :
        /\ dbItems[i].ownerId = dbRequests[r].borrowerId
        /\ dbItems[i].status = "available"
        /\ dbRequests[r].itemId # i

\* C22: two different borrowers can each hold a pending request for the same
\* item at the same time; a pending request on an item does not block the
\* creation of another one: the item keeps its card, with its Borrow button,
\* in the browse view of every user but its owner.
PendingRequestDoesNotBlock ==
    \A r \in RequestIds :
        (dbRequests[r].status = "pending"
         /\ dbItems[dbRequests[r].itemId].status = "available")
        => \A v \in Neighbors :
              v # dbItems[dbRequests[r].itemId].ownerId
              => ItemDocs[dbRequests[r].itemId] \in Range(Cards(v, ItemDocs))

TwoBorrowersPendingOnOneItem ==
    \E r \in RequestIds, q \in RequestIds :
        /\ dbRequests[r].itemId = dbRequests[q].itemId
        /\ dbRequests[r].borrowerId # dbRequests[q].borrowerId
        /\ dbRequests[r].status = "pending"
        /\ dbRequests[q].status = "pending"

\* C23: no action removes an item or a request from the store, and an
\* existing item changes only in its status, only by the item write of an
\* approve (to borrowed) or of a return (to available): share-item,
\* borrow-request and decline leave every existing item unchanged.
StoreOnlyGrowsAndItemsChangeByApproveOrReturn ==
    [][/\ \A r \in RequestIds : r \in DOMAIN dbRequests'
       /\ \A i \in ItemIds :
             /\ i \in DOMAIN dbItems'
             /\ dbItems'[i] # dbItems[i]
                => \E h \in InFlight :
                      /\ Acts(h)
                      /\ \/ /\ h.op = "handleAction"
                            /\ h.newStatus = "approved"
                            /\ dbItems'[i] =
                                 [dbItems[i] EXCEPT !.status = "borrowed"]
                         \/ /\ h.op = "handleReturn"
                            /\ dbItems'[i] =
                                 [dbItems[i] EXCEPT !.status = "available"]]_vars

\* an item has been borrowed and returned, and another request declined
ItemBorrowedReturnedAndDeclined ==
    \E r \in RequestIds, q \in RequestIds :
        /\ dbRequests[r].status = "returned"
        /\ dbRequests[q].status = "declined"
        /\ dbItems[dbRequests[r].itemId].status = "available"
        /\ Len(dbItems) = MaxItems

\* C24: after a request is created only its status ever changes: its itemId,
\* ownerId, borrowerId, item name, borrower name (and every other field
\* written at creation) keep their creation-time values under every later
\* action, and the ownerName of an item keeps its creation-time value.
RequestAndOwnerNameFrozen ==
    [][/\ \A r \in RequestIds :
             /\ r \in DOMAIN dbRequests'
             /\ [dbRequests'[r] EXCEPT !.status = dbRequests[r].status]
                   = dbRequests[r]
       /\ \A i \in ItemIds :
             /\ i \in DOMAIN dbItems'
             /\ dbItems'[i].ownerName = dbItems[i].ownerName]_vars

\* a request that went from pending through approved to returned still
\* names its item and its borrower as written by the borrow form, and its
\* item the owner as written by the share form
ReturnedRequestKeepsNames ==
    \E r \in RequestIds :
        /\ dbRequests[r].status = "returned"
        /\ dbRequests[r].itemName = dbItems[dbRequests[r].itemId].name
        /\ dbRequests[r].borrowerName =
              NewProfile(dbRequests[r].borrowerId).displayName
        /\ dbItems[dbRequests[r].itemId].ownerName =
              NewProfile(dbRequests[r].ownerId).displayName
        /\ dbItems[dbRequests[r].itemId].status = "available"

\* C25: at no time do two requests for the same item both have the status
\* approved.
AtMostOneApprovedPerItem ==
    \A i \in ItemIds : Cardinality(Approved(i)) <= 1

\* C28: a borrow request is written only for an item whose status in the
\* store is available at the time of the write.
RequestWrittenForAvailableItem ==
    [][\A r \in DOMAIN dbRequests' :
          r \notin RequestIds
          => dbItems[dbRequests'[r].itemId].status = "available"]_vars

\* C26: in every reachable client state userProfile is non-null only if user
\* is non-null, under any interleaving of auth-state notifications whose
\* profile lookups are still in flight.
ProfileOnlyWithUser ==
    \A t \in Tabs :
        app[t].userProfile # NullProfile => app[t].user # NullUser

\* the observer call of a sign-in has set the profile after the call of the
\* sign-out has run
ProfileSetAfterSignOut ==
    \E t \in Tabs :
        /\ app[t].callback = "done"
        /\ app[t].user = NullUser /\ app[t].authCurrentUser = NullUser
        /\ app[t].userProfile = NewProfile(app[t].currentUser)

\* C27: whenever a data view is displayed (auth ready and user non-null)
\* userProfile is non-null, so the submit handlers of the share and borrow
\* forms never run with a null profile.
DisplayedViewHasProfile ==
    \A t \in Tabs : ViewsDisplayed(t) => app[t].userProfile # NullProfile

ViewsDisplayedWithoutProfile ==
    \E t \in Tabs : ViewsDisplayed(t) /\ app[t].userProfile = NullProfile

\* C29: after every auth-state notification isAuthReady becomes true and
\* the loading screen is left, also when the profile lookup or the profile
\* write fails: when the observer call of a notification has ended,
\* isAuthReady is true.
ObserverEndLeavesLoading ==
    \A t \in Tabs :
        app[t].callback \in {"done", "rejected"} => app[t].isAuthReady

\* the observer call has ended at a rejected await and the sign-in has
\* settled: the tab shows the loading screen and no step of the client is
\* left to run
StuckOnLoading ==
    \E t \in Tabs :
        /\ app[t].callback = "rejected"
        /\ app[t].signIn \in {"done", "failed"}
        /\ LoadingDisplayed(t)

====
